---- MODULE Spec2Model ----
(***************************************************************************)
(* The CodeMirror commands plugin of JupyterLab                            *)
(* (packages/codemirror-extension/src/index.ts, activateEditorCommands):   *)
(* three closure variables (theme, keyMap, matchBrackets) kept in step     *)
(* with the setting registry and with the CodeMirror options of every      *)
(* editor widget of the editor tracker.                                    *)
(*                                                                         *)
(* One step of the model is one JavaScript task: a signal handler, a       *)
(* promise callback or a command's execute function, run to completion.    *)
(***************************************************************************)
EXTENDS Integers, Sequences, FiniteSets, TLC

\* ------------------------------------------------------------- bounds
MaxWidgets == 2
MaxWrites == 1
\* Writes in flight at once in the runs that race them
MaxRaceWrites == 2

\* ------------------------------------------------------------- values
\* A value read from the setting registry, and tracker.currentWidget, is
\* Null or Some(v)
Null == <<>>
Some(v) == <<v>>

DEFAULT_THEME == "jupyter"
DEFAULT_KEYMAP == "default"
DefaultIndentUnit == 4
OtherIndentUnit == 2

Ids == 1..MaxWidgets
Themes == {DEFAULT_THEME, "material"}
KeyMaps == {DEFAULT_KEYMAP, "sublime"}
\* args['theme'] / args['keyMap'] as a caller may pass them: "" is the falsy one
ThemeArgs == Themes \cup {""}
KeyMapArgs == KeyMaps \cup {""}
\* args of change-tabs: size 0 is the falsy one
TabsArgs == {[tabs |-> TRUE, size |-> OtherIndentUnit], [tabs |-> FALSE, size |-> 0]}
\* args['mode'] of change-mode: "" is the falsy one, "Klingon" a name that
\* Mode.findByName does not know
ModeArgs == {"", "Python", "Plain Text", "Klingon"}
PLAIN_MIME == "text/plain"
\* The CodeMirror commands of search, search-replace and jump-to-line
\* (lines 372, 383, 394)
EditorCommands == {"find", "replace", "jumpToLine"}
Keys == {"theme", "keyMap", "matchBrackets"}

StoreValues(k) ==
  IF k = "theme" THEN {Null} \cup {Some(t) : t \in Themes}
  ELSE IF k = "keyMap" THEN {Null} \cup {Some(m) : m \in KeyMaps}
  ELSE {Null} \cup {Some(b) : b \in BOOLEAN}

VARIABLES
  theme,          \* let theme (line 103)
  keyMap,         \* let keyMap (line 104)
  matchBrackets,  \* let matchBrackets (line 105)
  store,          \* the plugin's values in the setting registry: key -> Null or Some(v)
  writes,         \* settingRegistry.set promises still pending, oldest first
  loaded,         \* settingRegistry.load(id) has resolved
  restoredDone,   \* app.restored has resolved
  connected,      \* the Promise.all callback has run (settings.changed is connected)
  widgets,        \* the tracker: id of a tracked widget -> the widget
  current,        \* tracker.currentWidget: Null or Some(id)
  last,           \* what the command registry saw of the task that ran last
  hist            \* the history of the setter calls, in the runs that record it

vars == <<theme, keyMap, matchBrackets, store, writes, loaded,
          restoredDone, connected, widgets, current, last, hist>>

memVars == <<theme, keyMap, matchBrackets>>
loadVars == <<loaded, restoredDone, connected>>
storeVars == <<store, writes>>
trackerVars == <<widgets, current>>

\* ------------------------------------------------------------- helpers
\* a || b for a string a
OrElse(a, b) == IF a = "" THEN b ELSE a

\* settings.get(key) || b for a string setting: null and "" are falsy
GetOrElse(got, b) == IF got = Null THEN b ELSE OrElse(got[1], b)

\* The three closure variables as one record
Mem == [theme |-> theme, keyMap |-> keyMap, matchBrackets |-> matchBrackets]

Tracked == DOMAIN widgets

\* widget.editor instanceof CodeMirrorEditor
IsCodeMirror(wd) == wd.cm

CMTracked == {w \in Tracked : IsCodeMirror(widgets[w])}

\* tracker.size
TrackerSize == Cardinality(Tracked)

\* cm.setOption(name, value) on one widget
setOption(wd, name, value) == [wd EXCEPT !.opts[name] = value]

\* The options a CodeMirror editor may have when the tracker first sees it:
\* the editor factory's, or a host's own
FreshOpts ==
  { [keyMap |-> DEFAULT_KEYMAP, theme |-> DEFAULT_THEME, matchBrackets |-> FALSE,
     indentWithTabs |-> FALSE, indentUnit |-> DefaultIndentUnit],
    [keyMap |-> "sublime", theme |-> "material", matchBrackets |-> TRUE,
     indentWithTabs |-> FALSE, indentUnit |-> DefaultIndentUnit] }

\* The widgets a host may hand to the tracker
NewWidgets ==
  { [cm |-> TRUE, visible |-> v, mime |-> PLAIN_MIME, opts |-> o] :
      v \in BOOLEAN, o \in FreshOpts }
  \cup { [cm |-> FALSE, visible |-> v, mime |-> PLAIN_MIME, opts |-> <<>>] :
           v \in BOOLEAN }

\* What the command registry and the current editor saw of a task:
\*   notified  it called commands.notifyCommandChanged(CommandIDs.matchBrackets)
\*   threw     a command's execute threw
\*   ran       the command it had the current editor run (execCommand), if any
Saw(notified, threw) == [notified |-> notified, threw |-> threw, ran |-> Null]

Quiet == Saw(FALSE, FALSE)

Ran(cmd) == [notified |-> FALSE, threw |-> FALSE, ran |-> Some(cmd)]

\* Mode.findByName(mode) (line 242): the mode's mime type, or nothing
findByName(mode) ==
  IF mode = "Python" THEN Some("text/x-python")
  ELSE IF mode = "Plain Text" THEN Some(PLAIN_MIME)
  ELSE Null

\* ------------------------------------------------------------- history
\* hist is NoHistory in the runs that record nothing.  In the others it is
\* Some of a record:
\*   issued     key -> Null, or Some of the value the most recent call of the
\*              key's setter passed to settingRegistry.set
\*   overtaken  a write has landed while a write issued before it for the
\*              same key was still pending
NoHistory == Null

Recording ==
  Some([issued |-> [theme |-> Null, keyMap |-> Null, matchBrackets |-> Null],
        overtaken |-> FALSE])

\* settingRegistry.set(id, k, v) is called
noteIssued(h, k, v) ==
  IF h = NoHistory THEN h ELSE Some([h[1] EXCEPT !.issued[k] = Some(v)])

\* The write at place i of the pending writes q lands
noteLanded(h, q, i) ==
  IF h = NoHistory THEN h
  ELSE Some([h[1] EXCEPT !.overtaken =
               @ \/ \E j \in 1..(i - 1) : q[j][1] = q[i][1]])

\* ------------------------------------------------------------- the closure's functions
\* An updateSettings that flips the flag when the registry holds null
updateSettings_flip(st, m) ==
  [matchBrackets |-> IF st.matchBrackets = Null THEN ~m.matchBrackets
                     ELSE st.matchBrackets[1],
   keyMap |-> GetOrElse(st.keyMap, m.keyMap),
   theme |-> GetOrElse(st.theme, m.theme)]

\* updateSettings (lines 120-125): the three values after reading the
\* registry st, from the values m before
updateSettings(st, m) ==
  [matchBrackets |-> IF st.matchBrackets = Null THEN FALSE ELSE st.matchBrackets[1],
   keyMap |-> GetOrElse(st.keyMap, m.keyMap),
   theme |-> GetOrElse(st.theme, m.theme)]

\* The three setOption calls of lines 134-136 and of lines 157-159
applyAll(wd, km, th, mb) ==
  setOption(setOption(setOption(wd, "keyMap", km), "theme", th),
            "matchBrackets", mb)

\* An updateTracker that returns after the first CodeMirror editor
updateTracker_firstOnly(ws, km, th, mb) ==
  [w \in DOMAIN ws |->
     IF IsCodeMirror(ws[w]) /\ \A x \in DOMAIN ws : IsCodeMirror(ws[x]) => w <= x
       THEN applyAll(ws[w], km, th, mb) ELSE ws[w]]

\* updateTracker (lines 130-139)
updateTracker(ws, km, th, mb) ==
  [w \in DOMAIN ws |->
     IF IsCodeMirror(ws[w]) THEN applyAll(ws[w], km, th, mb) ELSE ws[w]]

\* A handler that forgets the matchBrackets option
onWidgetAdded_noMatchBrackets(wd, km, th, mb) ==
  IF IsCodeMirror(wd) THEN setOption(setOption(wd, "keyMap", km), "theme", th) ELSE wd

\* tracker.widgetAdded handler (lines 154-161), on the widget added
onWidgetAdded(wd, km, th, mb) ==
  IF IsCodeMirror(wd) THEN applyAll(wd, km, th, mb) ELSE wd

\* A setter that reaches the first tracked widget only
setOptionAll_firstOnly(ws, name, value) ==
  [w \in DOMAIN ws |->
     IF IsCodeMirror(ws[w]) /\ \A x \in DOMAIN ws : w <= x
       THEN setOption(ws[w], name, value) ELSE ws[w]]

\* tracker.forEach(widget => ... cm.setOption(name, value)) of the three
\* setter commands (lines 206-211, 225-230, 353-359)
setOptionAll(ws, name, value) ==
  [w \in DOMAIN ws |->
     IF IsCodeMirror(ws[w]) THEN setOption(ws[w], name, value) ELSE ws[w]]

\* A handler that tests tracker.size < 1
onCurrentChanged_strict(size) == size < 1

\* tracker.currentChanged handler (lines 164-168): is
\* commands.notifyCommandChanged(CommandIDs.matchBrackets) called
onCurrentChanged(size) == size <= 1

\* A test that never says no
hasWidget_always == TRUE

\* hasWidget (lines 173-175)
hasWidget == current # Null

\* isEditorVisible (lines 180-184)
isEditorVisible ==
  /\ current # Null
  /\ IsCodeMirror(widgets[current[1]])
  /\ widgets[current[1]].visible

\* A predicate that puts the default in place of an empty argument first
changeTheme_isToggled_defaulted(arg) == OrElse(arg, DEFAULT_THEME) = theme

\* isToggled of change-theme (line 215): args['theme'] === theme
changeTheme_isToggled(arg) == arg = theme

\* isToggled of change-keymap (line 234): args['keyMap'] === keyMap
changeKeyMap_isToggled(arg) == arg = keyMap

\* isToggled of match-brackets (line 364): () => matchBrackets
matchBrackets_isToggled == matchBrackets

\* ------------------------------------------------------------- initial state
\* activateEditorCommands has returned: the closure variables hold their
\* defaults (lines 103-105), both promises of line 142 are pending, the
\* tracker is empty and the registry holds whatever was persisted before.
Activated ==
  /\ theme = DEFAULT_THEME
  /\ keyMap = DEFAULT_KEYMAP
  /\ matchBrackets = FALSE
  /\ store \in [theme : StoreValues("theme"), keyMap : StoreValues("keyMap"),
                 matchBrackets : StoreValues("matchBrackets")]
  /\ writes = <<>>
  /\ loaded = FALSE
  /\ restoredDone = FALSE
  /\ connected = FALSE
  /\ widgets = <<>>
  /\ current = Null
  /\ last = Quiet

Init == Activated /\ hist = NoHistory

\* ------------------------------------------------------------- the load (lines 141-149)
\* settingRegistry.load(id) resolves.  (A load that rejects leaves the
\* callback of line 142 unrun for ever, as a load that stays pending does.)
LoadResolve ==
  /\ ~loaded
  /\ loaded' = TRUE
  /\ last' = Quiet
  /\ UNCHANGED <<memVars, storeVars, restoredDone, connected, trackerVars, hist>>

\* app.restored resolves
Restored ==
  /\ ~restoredDone
  /\ restoredDone' = TRUE
  /\ last' = Quiet
  /\ UNCHANGED <<memVars, storeVars, loaded, connected, trackerVars, hist>>

\* updateSettings(settings); updateTracker() (lines 143-144 and 146-147):
\* the closure variables and the tracker's widgets afterwards
settingsChanged(st, m, ws) ==
  LET n == updateSettings(st, m)
  IN  [mem |-> n, widgets |-> updateTracker(ws, n.keyMap, n.theme, n.matchBrackets)]

reapply(st) ==
  LET r == settingsChanged(st, Mem, widgets)
  IN  /\ matchBrackets' = r.mem.matchBrackets
      /\ keyMap' = r.mem.keyMap
      /\ theme' = r.mem.theme
      /\ widgets' = r.widgets

\* Waiting for the load alone
bothSettled_loadOnly == loaded

\* Promise.all([settingRegistry.load(id), restored]) is fulfilled (line 142)
bothSettled == loaded /\ restoredDone

\* The callback of Promise.all(...).then (lines 142-149)
InitialApply ==
  /\ bothSettled
  /\ ~connected
  /\ reapply(store)
  /\ connected' = TRUE
  /\ last' = Quiet
  /\ UNCHANGED <<storeVars, loaded, restoredDone, current, hist>>

\* ------------------------------------------------------------- the setting registry
\* The listener connected at activation, outside the Promise.all callback
listening_fromActivation == TRUE

\* settings.changed has the listener of lines 145-148 once line 145 has run
listening == connected

\* A handler that does nothing
emitChanged_deaf(st) == UNCHANGED <<memVars, widgets>>

\* settings.changed is emitted with the registry holding st: the handler of
\* lines 145-148 runs if it is connected
emitChanged(st) ==
  IF listening THEN reapply(st) ELSE UNCHANGED <<memVars, widgets>>

\* Another client of the registry (the settings editor) saves one of the
\* plugin's values, changed or not; the registry emits settings.changed.
ExternalSave(k, v) ==
  /\ store' = [store EXCEPT ![k] = v]
  /\ emitChanged(store')
  /\ last' = Quiet
  /\ UNCHANGED <<writes, loadVars, current, hist>>

\* A pending write is <<key, value>>
WriteKey(wr) == wr[1]
WriteValue(wr) == wr[2]

Remove(q, i) == [j \in 1..(Len(q) - 1) |-> IF j < i THEN q[j] ELSE q[j + 1]]

\* The write of a settingRegistry.set call lands: its promise resolves, the
\* registry holds the value and emits settings.changed.
WriteLand(i) ==
  /\ i \in 1..Len(writes)
  /\ store' = [store EXCEPT ![WriteKey(writes[i])] = Some(WriteValue(writes[i]))]
  /\ writes' = Remove(writes, i)
  /\ emitChanged(store')
  /\ last' = Quiet
  /\ hist' = noteLanded(hist, writes, i)
  /\ UNCHANGED <<loadVars, current>>

\* A failed write that puts back what the registry holds
WriteFail_rollback(i) ==
  /\ i \in 1..Len(writes)
  /\ writes' = Remove(writes, i)
  /\ reapply(store)
  /\ last' = Quiet
  /\ UNCHANGED <<store, loadVars, current, hist>>

\* The write of a settingRegistry.set call fails: the promise, which is the
\* one the command returned (lines 212, 231, 360), rejects; the plugin has
\* chained nothing to it.
WriteFail(i) ==
  /\ i \in 1..Len(writes)
  /\ writes' = Remove(writes, i)
  /\ last' = Quiet
  /\ UNCHANGED <<memVars, store, loadVars, trackerVars, hist>>

\* A set that is sent twice
settingRegistrySet_twice(q, k, v) == Append(Append(q, <<k, v>>), <<k, v>>)

\* settingRegistry.set(id, key, value) (lines 212, 231, 360)
settingRegistrySet(q, k, v) == Append(q, <<k, v>>)

\* ------------------------------------------------------------- the setter commands
\* The command registry runs execute whether or not isEnabled holds.  The
\* specifications bound the writes in flight.

\* The argument taken as it comes, with no default for an empty one
changeTheme_theme_noDefault(arg) == arg

\* args['theme'] as string || CodeMirrorEditor.DEFAULT_THEME (line 205)
changeTheme_theme(arg) == OrElse(arg, DEFAULT_THEME)

\* args['keyMap'] as string || 'default' (line 224)
changeKeyMap_keyMap(arg) == OrElse(arg, DEFAULT_KEYMAP)

\* !matchBrackets (line 352): execute: () => ... reads no argument
matchBrackets_flag(arg, mb) == ~mb

\* CommandIDs.changeTheme execute (lines 204-213)
ChangeTheme(arg) ==
  /\ theme' = changeTheme_theme(arg)
  /\ widgets' = setOptionAll(widgets, "theme", theme')
  /\ writes' = settingRegistrySet(writes, "theme", theme')
  /\ hist' = noteIssued(hist, "theme", theme')
  /\ last' = Quiet
  /\ UNCHANGED <<keyMap, matchBrackets, store, loadVars, current>>

\* A change-keymap that saves under the key of change-theme
ChangeKeyMap_themeKey(arg) ==
  /\ keyMap' = changeKeyMap_keyMap(arg)
  /\ widgets' = setOptionAll(widgets, "keyMap", keyMap')
  /\ writes' = settingRegistrySet(writes, "theme", keyMap')
  /\ hist' = noteIssued(hist, "theme", keyMap')
  /\ last' = Quiet
  /\ UNCHANGED <<theme, matchBrackets, store, loadVars, current>>

\* CommandIDs.changeKeyMap execute (lines 223-232)
ChangeKeyMap(arg) ==
  /\ keyMap' = changeKeyMap_keyMap(arg)
  /\ widgets' = setOptionAll(widgets, "keyMap", keyMap')
  /\ writes' = settingRegistrySet(writes, "keyMap", keyMap')
  /\ hist' = noteIssued(hist, "keyMap", keyMap')
  /\ last' = Quiet
  /\ UNCHANGED <<theme, matchBrackets, store, loadVars, current>>

\* CommandIDs.matchBrackets execute (lines 351-361); arg is the flag a
\* caller may pass
MatchBrackets(arg) ==
  /\ matchBrackets' = matchBrackets_flag(arg, matchBrackets)
  /\ widgets' = setOptionAll(widgets, "matchBrackets", matchBrackets')
  /\ writes' = settingRegistrySet(writes, "matchBrackets", matchBrackets')
  /\ hist' = noteIssued(hist, "matchBrackets", matchBrackets')
  /\ last' = Quiet
  /\ UNCHANGED <<theme, keyMap, store, loadVars, current>>

\* The command registry evaluates isEnabled and isToggled of the commands (a
\* menu or the palette is drawn): hasWidget, isEditorVisible and the
\* isToggled functions of lines 215, 234 and 364 read and assign nothing.
EvalPredicates ==
  /\ last' = Quiet
  /\ UNCHANGED <<memVars, storeVars, loadVars, trackerVars, hist>>

\* ------------------------------------------------------------- the editor tracker
\* The tracker lives outside this plugin.  It adds and drops widgets one at a
\* time, emits widgetAdded for each widget added, keeps currentWidget null or
\* one of its widgets, and emits currentChanged when currentWidget changes.

\* tracker.add(widget): widgetAdded runs the handler of lines 154-161; the
\* new widget may or may not become the current one.
AddWidget(w, wd, becomesCurrent) ==
  /\ w \in Ids \ Tracked
  /\ wd \in NewWidgets
  /\ widgets' = (w :> onWidgetAdded(wd, keyMap, theme, matchBrackets)) @@ widgets
  /\ current' = IF becomesCurrent THEN Some(w) ELSE current
  /\ last' = Saw(becomesCurrent /\ onCurrentChanged(TrackerSize + 1), FALSE)
  /\ UNCHANGED <<memVars, storeVars, loadVars, hist>>

\* A tracked widget is disposed.  If it was the current one, next is the new
\* currentWidget and currentChanged runs the handler of lines 164-168.
DisposeWidget(w, next) ==
  /\ w \in Tracked
  /\ widgets' = [x \in Tracked \ {w} |-> widgets[x]]
  /\ IF current = Some(w)
       THEN next \in {Null} \cup {Some(x) : x \in Tracked \ {w}}
       ELSE next = current
  /\ current' = next
  /\ last' = Saw(current = Some(w) /\ onCurrentChanged(TrackerSize - 1), FALSE)
  /\ UNCHANGED <<memVars, storeVars, loadVars, hist>>

\* Another tracked widget becomes the current one; currentChanged runs the
\* handler of lines 164-168.
FocusWidget(w) ==
  /\ w \in Tracked
  /\ current # Some(w)
  /\ current' = Some(w)
  /\ last' = Saw(onCurrentChanged(TrackerSize), FALSE)
  /\ UNCHANGED <<memVars, storeVars, loadVars, widgets, hist>>

\* A tracked widget is shown or hidden by the shell
SetVisible(w) ==
  /\ w \in Tracked
  /\ widgets' = [widgets EXCEPT ![w].visible = ~@]
  /\ last' = Quiet
  /\ UNCHANGED <<memVars, storeVars, loadVars, current, hist>>

\* ------------------------------------------------------------- change-tabs
\* args['size'] as number || 4 (line 270)
changeTabs_size(arg) == IF arg = 0 THEN DefaultIndentUnit ELSE arg

\* CommandIDs.changeTabs execute (lines 264-274)
ChangeTabs(args) ==
  \/ /\ current = Null
     /\ last' = Quiet
     /\ UNCHANGED <<memVars, storeVars, loadVars, trackerVars, hist>>
  \/ /\ current # Null
     /\ ~IsCodeMirror(widgets[current[1]])
     \* editor.editor is undefined: setOption throws a TypeError
     /\ last' = Saw(FALSE, TRUE)
     /\ UNCHANGED <<memVars, storeVars, loadVars, trackerVars, hist>>
  \/ /\ current # Null
     /\ IsCodeMirror(widgets[current[1]])
     /\ widgets' = [widgets EXCEPT ![current[1]] =
                      setOption(setOption(@, "indentWithTabs", args.tabs),
                                "indentUnit", changeTabs_size(args.size))]
     /\ last' = Quiet
     /\ UNCHANGED <<memVars, storeVars, loadVars, current, hist>>

\* ------------------------------------------------------------- change-mode
\* CommandIDs.changeMode execute (lines 239-248)
ChangeMode(mode) ==
  \/ /\ mode = "" \/ findByName(mode) = Null
     /\ last' = Quiet
     /\ UNCHANGED <<memVars, storeVars, loadVars, trackerVars, hist>>
  \/ /\ mode # "" /\ findByName(mode) # Null
     /\ current = Null
     \* widget is null: widget.model throws a TypeError
     /\ last' = Saw(FALSE, TRUE)
     /\ UNCHANGED <<memVars, storeVars, loadVars, trackerVars, hist>>
  \/ /\ mode # "" /\ findByName(mode) # Null
     /\ current # Null
     /\ widgets' = [widgets EXCEPT ![current[1]].mime = findByName(mode)[1]]
     /\ last' = Quiet
     /\ UNCHANGED <<memVars, storeVars, loadVars, current, hist>>

\* ------------------------------------------------------------- search, search-replace, jump-to-line
\* The execute of CommandIDs.search, searchReplace and jumpToLine (lines
\* 369-374, 380-385, 391-396), which differ by the command cmd alone
Search(cmd) ==
  \/ /\ current = Null
     \* widget is null: widget.editor throws a TypeError
     /\ last' = Saw(FALSE, TRUE)
     /\ UNCHANGED <<memVars, storeVars, loadVars, trackerVars, hist>>
  \/ /\ current # Null
     /\ ~IsCodeMirror(widgets[current[1]])
     /\ last' = Quiet
     /\ UNCHANGED <<memVars, storeVars, loadVars, trackerVars, hist>>
  \/ /\ current # Null
     /\ IsCodeMirror(widgets[current[1]])
     /\ last' = Ran(cmd)
     /\ UNCHANGED <<memVars, storeVars, loadVars, trackerVars, hist>>

\* ------------------------------------------------------------- specifications
\* The load, the registry and the setter commands
SyncStep ==
  \/ LoadResolve
  \/ Restored
  \/ InitialApply
  \/ \E k \in Keys : \E v \in StoreValues(k) : ExternalSave(k, v)
  \/ \E i \in 1..MaxWrites : WriteLand(i)
  \/ \E i \in 1..MaxWrites : WriteFail(i)
  \/ \E arg \in ThemeArgs : Len(writes) < MaxWrites /\ ChangeTheme(arg)
  \/ \E arg \in KeyMapArgs : Len(writes) < MaxWrites /\ ChangeKeyMap(arg)
  \/ \E arg \in BOOLEAN : Len(writes) < MaxWrites /\ MatchBrackets(arg)
  \/ EvalPredicates

\* The tracker adds and drops widgets
TrackStep ==
  \/ \E w \in Ids : \E wd \in NewWidgets : \E c \in BOOLEAN : AddWidget(w, wd, c)
  \/ \E w \in Ids : \E next \in {Null} \cup {Some(x) : x \in Ids} : DisposeWidget(w, next)

\* The shell moves the focus and shows and hides widgets; the commands on
\* the current widget
ShellStep ==
  \/ \E w \in Ids : FocusWidget(w)
  \/ \E w \in Ids : SetVisible(w)
  \/ \E args \in TabsArgs : ChangeTabs(args)
  \/ \E mode \in ModeArgs : ChangeMode(mode)
  \/ \E cmd \in EditorCommands : Search(cmd)

\* Everything the plugin reacts to
Next == SyncStep \/ TrackStep \/ ShellStep

Spec == Init /\ [][Next]_vars

\* The settings side: the load, the registry and the setter commands, with
\* widgets opened (shown, not focused) and closed meanwhile.
SyncTrackStep ==
  \/ \E w \in Ids : \E wd \in {x \in NewWidgets : x.visible} : AddWidget(w, wd, FALSE)
  \/ \E w \in Ids : DisposeWidget(w, current)

SpecSync == Init /\ [][SyncStep \/ SyncTrackStep]_vars

\* The tracker side: widgets opened, closed, focused, shown and hidden, and
\* the commands on the current widget, with the settings left alone.
SpecShell == Init /\ [][TrackStep \/ ShellStep]_vars

\* The setters raced: after activation, the load, setter calls with up to
\* MaxRaceWrites writes in flight, every write landing (in any order) and
\* its notification handled, editors opened meanwhile; no write fails and no
\* other client saves.  The history is recorded.
InitRace == Activated /\ hist = Recording

RaceStep ==
  \/ LoadResolve
  \/ Restored
  \/ InitialApply
  \/ \E i \in 1..MaxRaceWrites : WriteLand(i)
  \/ \E arg \in ThemeArgs : Len(writes) < MaxRaceWrites /\ ChangeTheme(arg)
  \/ \E arg \in KeyMapArgs : Len(writes) < MaxRaceWrites /\ ChangeKeyMap(arg)
  \/ \E arg \in BOOLEAN : Len(writes) < MaxRaceWrites /\ MatchBrackets(arg)
  \/ \E w \in Ids : \E wd \in {x \in NewWidgets : x.cm /\ x.visible} :
       AddWidget(w, wd, FALSE)

SpecRace == InitRace /\ [][RaceStep]_vars

\* The three handlers and the setters together: the load, setter calls,
\* writes landing and failing, CodeMirror editors opened, focused and closed.
LoopStep ==
  \/ LoadResolve
  \/ Restored
  \/ InitialApply
  \/ \E i \in 1..MaxWrites : WriteLand(i)
  \/ \E i \in 1..MaxWrites : WriteFail(i)
  \/ \E arg \in ThemeArgs : Len(writes) < MaxWrites /\ ChangeTheme(arg)
  \/ \E arg \in KeyMapArgs : Len(writes) < MaxWrites /\ ChangeKeyMap(arg)
  \/ \E arg \in BOOLEAN : Len(writes) < MaxWrites /\ MatchBrackets(arg)
  \/ \E w \in Ids : \E wd \in {x \in NewWidgets : x.cm /\ x.visible} : \E c \in BOOLEAN :
       AddWidget(w, wd, c)
  \/ \E w \in Ids : \E next \in {Null} \cup {Some(x) : x \in Ids} : DisposeWidget(w, next)
  \/ \E w \in Ids : FocusWidget(w)

SpecLoop == Init /\ [][LoopStep]_vars

\* ------------------------------------------------------------- properties
\* The three options of a CodeMirror widget
Three(wd) == [keyMap |-> wd.opts.keyMap, theme |-> wd.opts.theme,
              matchBrackets |-> wd.opts.matchBrackets]

\* C1: in every state (every task runs to completion, so every state is
\* outside a broadcast) each tracked CodeMirror editor has its keyMap, theme
\* and matchBrackets options equal to the closure's keyMap, theme and
\* matchBrackets.  A tracked widget whose editor is not a CodeMirrorEditor has
\* no such options.
C1_InstancesFollowMemory ==
  \A w \in CMTracked : Three(widgets[w]) = Mem

\* C1 witness: after the load, two CodeMirror editors carry values that are
\* neither the defaults nor the registry's.
C1_Witness ==
  /\ connected
  /\ Cardinality(CMTracked) >= 2
  /\ theme = "material" /\ keyMap = "sublime" /\ matchBrackets
  /\ store.theme # Some("material")
  /\ \A w \in CMTracked : Three(widgets[w]) = Mem

\* A task of the registry: a save by another client, or a write landing
RegistryStep ==
  \/ \E k \in Keys : \E v \in StoreValues(k) : ExternalSave(k, v)
  \/ \E i \in 1..MaxWrites : WriteLand(i)

\* A setter command runs
SetterStep ==
  \/ \E arg \in ThemeArgs : ChangeTheme(arg)
  \/ \E arg \in KeyMapArgs : ChangeKeyMap(arg)
  \/ \E arg \in BOOLEAN : MatchBrackets(arg)

\* A task that calls cm.setOption on a tracked CodeMirror editor
AppliesToInstance ==
  \/ \E w \in Ids : \E wd \in NewWidgets : \E c \in BOOLEAN :
       AddWidget(w, wd, c) /\ IsCodeMirror(wd)
  \/ CMTracked # {} /\ SetterStep
  \/ CMTracked # {} /\ InitialApply
  \/ CMTracked # {} /\ connected /\ RegistryStep

\* C2 as claimed: no task applies a value to a tracked editor before the
\* initial load has completed (the Promise.all callback has run by the end
\* of the task).
C2_Original ==
  [][AppliesToInstance => connected']_vars

\* C2 amended: before the Promise.all callback has run, a change of the
\* registry (a save by another client, a write landing) is not applied: it
\* changes neither the closure variables nor any widget.  The widgetAdded
\* handler and the setter commands are connected at activation and do apply
\* the closure's values before the load.
C2_NoReapplyBeforeLoad ==
  [][(~connected /\ RegistryStep) => UNCHANGED <<theme, keyMap, matchBrackets, widgets>>]_vars

\* C2 witness: the load is still pending, an editor is tracked and holds the
\* defaults while the registry holds other values.
C2_Witness ==
  /\ ~loaded
  /\ CMTracked # {}
  /\ store = [theme |-> Some("material"), keyMap |-> Some("sublime"),
              matchBrackets |-> Some(TRUE)]
  /\ Mem = [theme |-> DEFAULT_THEME, keyMap |-> DEFAULT_KEYMAP, matchBrackets |-> FALSE]
  /\ \A w \in CMTracked : Three(widgets[w]) = Mem

\* The registry's values with the defaults in place of null
LoadedOrDefault(st) ==
  [theme |-> IF st.theme = Null THEN DEFAULT_THEME ELSE st.theme[1],
   keyMap |-> IF st.keyMap = Null THEN DEFAULT_KEYMAP ELSE st.keyMap[1],
   matchBrackets |-> IF st.matchBrackets = Null THEN FALSE ELSE st.matchBrackets[1]]

\* C3 as claimed: when the Promise.all callback has run, the closure
\* variables and every tracked CodeMirror editor's options equal the
\* registry's values, or the defaults where the registry holds null,
\* whatever ran before.
C3_Original ==
  [][InitialApply =>
       /\ Mem' = LoadedOrDefault(store)
       /\ \A w \in CMTracked' : Three(widgets'[w]) = LoadedOrDefault(store)]_vars

\* The value a setter is claimed to store for a string argument
ArgOrDefault(arg, default) == IF arg = "" THEN default ELSE arg

\* C4 as claimed: when a setter returns, the closure variable equals the
\* argument passed (the default for an empty one) and so does the option of
\* every tracked CodeMirror editor; for match-brackets the argument is the flag.
C4_Original ==
  [][/\ \A arg \in ThemeArgs : ChangeTheme(arg) =>
          /\ theme' = ArgOrDefault(arg, DEFAULT_THEME)
          /\ \A w \in CMTracked' : widgets'[w].opts.theme = theme'
     /\ \A arg \in KeyMapArgs : ChangeKeyMap(arg) =>
          /\ keyMap' = ArgOrDefault(arg, DEFAULT_KEYMAP)
          /\ \A w \in CMTracked' : widgets'[w].opts.keyMap = keyMap'
     /\ \A arg \in BOOLEAN : MatchBrackets(arg) =>
          /\ matchBrackets' = arg
          /\ \A w \in CMTracked' : widgets'[w].opts.matchBrackets = matchBrackets'
    ]_vars

\* C4 amended: when change-theme / change-keymap returns, the closure
\* variable equals the argument passed (the default for an empty one); when
\* match-brackets returns, the flag is the negation of what it was, whatever
\* was passed; in all three the option of every tracked CodeMirror editor
\* equals the new value.
C4_Setters ==
  [][/\ \A arg \in ThemeArgs : ChangeTheme(arg) =>
          /\ theme' = ArgOrDefault(arg, DEFAULT_THEME)
          /\ \A w \in CMTracked' : widgets'[w].opts.theme = theme'
     /\ \A arg \in KeyMapArgs : ChangeKeyMap(arg) =>
          /\ keyMap' = ArgOrDefault(arg, DEFAULT_KEYMAP)
          /\ \A w \in CMTracked' : widgets'[w].opts.keyMap = keyMap'
     /\ \A arg \in BOOLEAN : MatchBrackets(arg) =>
          /\ matchBrackets' = ~matchBrackets
          /\ \A w \in CMTracked' : widgets'[w].opts.matchBrackets = matchBrackets'
    ]_vars

\* C4 witness: setters have returned with two editors tracked; the values are
\* the ones passed and their writes have not landed.
C4_Witness ==
  /\ Cardinality(CMTracked) >= 2
  /\ theme = "material"
  /\ \A w \in CMTracked : widgets[w].opts.theme = "material"
  /\ store.theme # Some("material")
  /\ \E i \in 1..Len(writes) : writes[i] = <<"theme", "material">>

\* C5: handling widgetAdded sets the keyMap, theme and matchBrackets options
\* of the widget added, if it is a CodeMirror editor, to the closure's values
\* and changes nothing else: no other option or property of that widget, no
\* other tracked widget, no closure variable, nothing in the registry and no
\* write issued.
C5_AddedFrame ==
  [][\A w \in Ids : \A wd \in NewWidgets : \A c \in BOOLEAN :
       AddWidget(w, wd, c) =>
         /\ widgets'[w].cm = wd.cm
         /\ widgets'[w].visible = wd.visible
         /\ widgets'[w].mime = wd.mime
         /\ IF wd.cm
              THEN /\ Three(widgets'[w]) = Mem
                   /\ widgets'[w].opts.indentWithTabs = wd.opts.indentWithTabs
                   /\ widgets'[w].opts.indentUnit = wd.opts.indentUnit
              ELSE widgets'[w].opts = wd.opts
         /\ \A x \in Tracked : widgets'[x] = widgets[x]
         /\ UNCHANGED <<theme, keyMap, matchBrackets, store, writes>>
    ]_vars

\* C5 witness: with theme "material", keyMap "sublime" and matchBrackets true
\* set by commands before the load, an editor has been added to another one
\* and holds exactly those three values, its other options as created.
C5_Witness ==
  /\ ~connected
  /\ Mem = [theme |-> "material", keyMap |-> "sublime", matchBrackets |-> TRUE]
  /\ Cardinality(CMTracked) >= 2
  /\ \A w \in CMTracked :
       /\ Three(widgets[w]) = Mem
       /\ widgets[w].opts.indentUnit = DefaultIndentUnit
       /\ ~widgets[w].opts.indentWithTabs

\* C6: when the write of a setter fails, its promise (the very one the
\* command returned) rejects and nothing else happens: the write leaves the
\* pending ones and none is issued in its place, and the closure variables,
\* every tracked widget and the registry stay as they are.
C6_FailedWrite ==
  [][\A i \in 1..MaxWrites :
       WriteFail(i) =>
         /\ writes' = Remove(writes, i)
         /\ Len(writes') = Len(writes) - 1
         /\ UNCHANGED <<theme, keyMap, matchBrackets, widgets, store>>
    ]_vars

\* C6 witness: after the load, nothing is pending, the theme in memory and
\* on the editors is "material" and the registry holds another one: the
\* write of change-theme failed and the new value stayed.
C6_Witness ==
  /\ connected
  /\ writes = <<>>
  /\ theme = "material"
  /\ store.theme = Some(DEFAULT_THEME)
  /\ CMTracked # {}
  /\ \A w \in CMTracked : widgets[w].opts.theme = "material"

\* The commands scoped to an editor, and the ones among them enabled by
\* isEditorVisible (lines 375, 386, 397) rather than hasWidget (lines 214,
\* 233, 249, 275, 363)
Commands == {"changeTheme", "changeKeyMap", "changeMode", "changeTabs",
             "matchBrackets", "search", "searchReplace", "jumpToLine"}

VisibleCommands == {"search", "searchReplace", "jumpToLine"}

isEnabled(cmd) == IF cmd \in VisibleCommands THEN isEditorVisible ELSE hasWidget

\* C7 as claimed: with no tracked widget every command is disabled, with
\* one tracked widget every command is enabled.
C7_Original ==
  /\ TrackerSize = 0 => \A cmd \in Commands : ~isEnabled(cmd)
  /\ TrackerSize = 1 => \A cmd \in Commands : isEnabled(cmd)

\* C7 amended: with no tracked widget every command is disabled; with one
\* tracked widget, change-theme, change-keymap, change-mode, change-tabs and
\* match-brackets are enabled exactly when that widget is the current one,
\* and search, search-replace and jump-to-line exactly when it is the current
\* one, has a CodeMirror editor and is visible.
C7_Enablement ==
  /\ TrackerSize = 0 => \A cmd \in Commands : ~isEnabled(cmd)
  /\ TrackerSize = 1 =>
       \A w \in Tracked : \A cmd \in Commands :
         isEnabled(cmd) <=>
           /\ current = Some(w)
           /\ cmd \in VisibleCommands => widgets[w].cm /\ widgets[w].visible

\* C7 witness: the one tracked widget is the current one and is hidden:
\* change-theme is enabled, search is not.
C7_Witness ==
  /\ TrackerSize = 1
  /\ current # Null
  /\ widgets[current[1]].cm
  /\ ~widgets[current[1]].visible
  /\ isEnabled("changeTheme")
  /\ ~isEnabled("search")

C9_Idempotent ==
  connected =>
    LET once == settingsChanged(store, Mem, widgets)
        twice == settingsChanged(store, once.mem, once.widgets)
    IN  twice = once

\* C9 witness: the handler is connected, an editor is tracked and one run of
\* the handler would change the values (a setter's write is still pending).
C9_Witness ==
  /\ connected
  /\ CMTracked # {}
  /\ writes # <<>>
  /\ settingsChanged(store, Mem, widgets).mem # Mem
  /\ settingsChanged(store, Mem, widgets).widgets # widgets

\* C10: the Promise.all callback (the first read of the three keys, the
\* first broadcast, the connection to settings.changed) has run only if both
\* settingRegistry.load(id) and app.restored have resolved.
C10_AfterBoth ==
  connected => loaded /\ restoredDone

\* C10 witness: the callback has run and its broadcast reached a tracked
\* editor: memory and the editor hold the registry's values.
C10_Witness ==
  /\ connected
  /\ writes = <<>>
  /\ CMTracked # {}
  /\ store = [theme |-> Some("material"), keyMap |-> Some("sublime"),
              matchBrackets |-> Some(TRUE)]
  /\ \A w \in CMTracked : Three(widgets[w]) = LoadedOrDefault(store)

\* C11: in every state isToggled of change-theme / change-keymap is true of
\* an argument exactly when the argument is the closure's theme / keyMap (so
\* never of the empty argument, which execute replaces by the default), and
\* isToggled of match-brackets is the closure's flag; a task that evaluates
\* isEnabled and isToggled changes no closure variable, no widget, nothing in
\* the registry and issues no write.
C11_Toggled ==
  [][/\ \A arg \in ThemeArgs : changeTheme_isToggled(arg)' <=> (arg = theme')
     /\ \A arg \in KeyMapArgs : changeKeyMap_isToggled(arg)' <=> (arg = keyMap')
     /\ ~changeTheme_isToggled("")' /\ ~changeKeyMap_isToggled("")'
     /\ matchBrackets_isToggled' <=> matchBrackets'
     /\ EvalPredicates =>
          UNCHANGED <<theme, keyMap, matchBrackets, widgets, store, writes>>
    ]_vars

\* C11 witness: change-theme has run with "material": its isToggled is true
\* of "material" alone, and isToggled of match-brackets is true.
C11_Witness ==
  /\ theme = "material"
  /\ changeTheme_isToggled("material")
  /\ ~changeTheme_isToggled(DEFAULT_THEME)
  /\ changeKeyMap_isToggled(DEFAULT_KEYMAP)
  /\ matchBrackets_isToggled
  /\ CMTracked # {}

\* The commands that act on the current widget
NeedCurrent == {"changeMode", "changeTabs", "search", "searchReplace", "jumpToLine"}

\* A task that runs execute of one of them
NeedCurrentStep ==
  \/ \E mode \in ModeArgs : ChangeMode(mode)
  \/ \E args \in TabsArgs : ChangeTabs(args)
  \/ \E cmd \in EditorCommands : Search(cmd)

\* C12 as claimed: while there is no current widget, isEnabled of
\* change-mode, change-tabs, search, search-replace and jump-to-line is false
\* and execute of any of them does not throw.
C12_Original ==
  [][current = Null =>
       /\ \A cmd \in NeedCurrent : ~isEnabled(cmd)
       /\ NeedCurrentStep => ~last'.threw
    ]_vars

\* C13 as claimed: handling the notification of one of the plugin's own
\* writes leaves the closure variables and every tracked widget as they were
\* just before, whatever setter calls and landings came in between.
C13_Original ==
  [][\A i \in 1..MaxRaceWrites :
       (connected /\ WriteLand(i)) =>
         UNCHANGED <<theme, keyMap, matchBrackets, widgets>>
    ]_vars

\* The most recent setter call of key k, if any, passed v
Issued(k) == hist[1].issued[k]

\* Key k has the value of its most recent setter call in the registry, in
\* the closure and in every tracked CodeMirror editor
Converged(k) ==
  /\ store[k] = Issued(k)
  /\ Mem[k] = Issued(k)[1]
  /\ \A w \in CMTracked : widgets[w].opts[k] = Issued(k)[1]

C15_Original ==
  [][(connected /\ RegistryStep) =>
       \A k \in Keys :
         store'[k] = Null =>
           /\ Mem'[k] = LoadedOrDefault(store')[k]
           /\ \A w \in CMTracked' : widgets'[w].opts[k] = LoadedOrDefault(store')[k]
    ]_vars

\* A task that changes the configuration: the Promise.all callback, the
\* settings.changed handler, a setter command
ConfigChangeStep ==
  \/ InitialApply
  \/ connected /\ RegistryStep
  \/ SetterStep

\* C16: a task that changes the configuration has applied the values to
\* every tracked CodeMirror editor when it returns, and no task of any kind
\* starts in a state where two tracked editors differ in keyMap, theme or
\* matchBrackets.
C16_Atomic ==
  [][/\ ConfigChangeStep => \A w \in CMTracked' : Three(widgets'[w]) = Mem'
     /\ \A w1, w2 \in CMTracked : Three(widgets[w1]) = Three(widgets[w2])
     /\ \A w1, w2 \in CMTracked' : Three(widgets'[w1]) = Three(widgets'[w2])
    ]_vars

\* C16 witness: before the load, change-keymap has returned with its write
\* pending and both tracked editors already have the new key map.
C16_Witness ==
  /\ ~loaded
  /\ writes = <<<<"keyMap", "sublime">>>>
  /\ keyMap = "sublime"
  /\ Cardinality(CMTracked) >= 2
  /\ \A w \in CMTracked : widgets[w].opts.keyMap = "sublime"

\* C17 as claimed: no task sets an option of a tracked widget whose editor
\* is not a CodeMirrorEditor, or has it run an editor command: a command on
\* such a current widget passes it over (and so does not throw).
C17_Original ==
  [][/\ \A w \in Tracked \cap Tracked' :
          ~IsCodeMirror(widgets[w]) => widgets'[w].opts = widgets[w].opts
     /\ (current # Null /\ ~IsCodeMirror(widgets[current[1]])) =>
          (last'.ran = Null /\ ~last'.threw)
    ]_vars

\* A task that runs one of the three handlers: settings.changed (also as
\* the Promise.all callback), widgetAdded, currentChanged
HandlerStep ==
  \/ InitialApply
  \/ RegistryStep
  \/ \E w \in Ids : \E wd \in NewWidgets : \E c \in BOOLEAN : AddWidget(w, wd, c)
  \/ \E w \in Ids : \E next \in {Null} \cup {Some(x) : x \in Ids} : DisposeWidget(w, next)
  \/ \E w \in Ids : FocusWidget(w)

\* C18: a task that leaves more writes pending than it found is a setter
\* command and none of the settings.changed, widgetAdded and currentChanged
\* handlers, and it has issued exactly one write; every other task is no
\* setter command and leaves pending only writes that were pending, a write
\* that lands leaving one fewer.  So the writes pending after a setter only
\* go down until the next setter call, and with them the notifications and
\* re-broadcasts still to come.
C18_NoFeedback ==
  [][IF Len(writes') > Len(writes)
       THEN /\ SetterStep
            /\ ~HandlerStep
            /\ writes' = Append(writes, writes'[Len(writes')])
       ELSE /\ ~SetterStep
            /\ \A j \in 1..Len(writes') : \E i \in 1..Len(writes) : writes'[j] = writes[i]
            /\ \A i \in 1..MaxWrites : WriteLand(i) => Len(writes') = Len(writes) - 1
    ]_vars

\* C18 witness: match-brackets has run with one editor tracked and current,
\* its write has landed and its notification has been handled: nothing is
\* pending.
C18_Witness ==
  /\ connected
  /\ writes = <<>>
  /\ matchBrackets /\ store.matchBrackets = Some(TRUE)
  /\ TrackerSize = 1
  /\ current # Null
  /\ \A w \in CMTracked : widgets[w].opts.matchBrackets

\* The tracker's widgets with option name of every CodeMirror editor set to
\* value and nothing else touched
OnlyOption(name, value) ==
  /\ DOMAIN widgets' = DOMAIN widgets
  /\ \A w \in Tracked :
       widgets'[w] = IF IsCodeMirror(widgets[w])
                       THEN [widgets[w] EXCEPT !.opts[name] = value]
                       ELSE widgets[w]

\* C19: change-theme, change-keymap and match-brackets each change their own
\* closure variable and their own option of every tracked CodeMirror editor
\* and nothing else of the closure or of the widgets, leave the registry's
\* values as they are, and issue one write, of their own key with the
\* closure variable's new value.
C19_SetterFrame ==
  [][/\ \A arg \in ThemeArgs : ChangeTheme(arg) =>
          /\ UNCHANGED <<keyMap, matchBrackets, store>>
          /\ OnlyOption("theme", theme')
          /\ writes' = Append(writes, <<"theme", theme'>>)
     /\ \A arg \in KeyMapArgs : ChangeKeyMap(arg) =>
          /\ UNCHANGED <<theme, matchBrackets, store>>
          /\ OnlyOption("keyMap", keyMap')
          /\ writes' = Append(writes, <<"keyMap", keyMap'>>)
     /\ \A arg \in BOOLEAN : MatchBrackets(arg) =>
          /\ UNCHANGED <<theme, keyMap, store>>
          /\ OnlyOption("matchBrackets", matchBrackets')
          /\ writes' = Append(writes, <<"matchBrackets", matchBrackets'>>)
    ]_vars

\* C19 witness: after the load read theme "material" and matchBrackets true
\* from the registry, change-keymap has run with "sublime": the write of
\* keyMap is pending and the editors keep the theme and the flag.
C19_Witness ==
  /\ connected
  /\ writes = <<<<"keyMap", "sublime">>>>
  /\ store = [theme |-> Some("material"), keyMap |-> Null, matchBrackets |-> Some(TRUE)]
  /\ Mem = [theme |-> "material", keyMap |-> "sublime", matchBrackets |-> TRUE]
  /\ CMTracked # {}
  /\ \A w \in CMTracked : Three(widgets[w]) = Mem

====
